---- MODULE Spec2Model ----
(***************************************************************************)
(* A model of cj_scraper.py: the CLI loop of main(), CJScraper's           *)
(* get_product_info / download_image / save_to_csv and the selector        *)
(* heuristics _get_title / _get_description / _get_images /                *)
(* _get_alternative_images.                                                *)
(*                                                                         *)
(* Strings that the code inspects (inputs, URLs, element text) are         *)
(* sequences of one-character strings, so that strip(), lower(),           *)
(* startswith(), `in` and splitext() are computed and not assumed.         *)
(* String literals that the code only concatenates (directory names, the   *)
(* base URL, "_image_") are single tokens of such a sequence.              *)
(***************************************************************************)
EXTENDS Naturals, Sequences, FiniteSets, TLC

(***************************************************************************)
(* Bounds of the model.                                                    *)
(***************************************************************************)
\* how many times main() reads the prompt in one run
MaxInputs == 2
\* how many elements a generated document has (selector specification)
MaxNodes == 3

(***************************************************************************)
(* Python string operations.                                               *)
(***************************************************************************)
UpperCase == <<"A", "B", "C", "D", "E", "F", "G", "H", "I", "J", "K", "L", "M",
               "N", "O", "P", "Q", "R", "S", "T", "U", "V", "W", "X", "Y", "Z">>

LowerCase == <<"a", "b", "c", "d", "e", "f", "g", "h", "i", "j", "k", "l", "m",
               "n", "o", "p", "q", "r", "s", "t", "u", "v", "w", "x", "y", "z">>

Whitespace == {" ", "\t", "\n"}

LowerOf(c) ==
    IF \E i \in DOMAIN UpperCase : UpperCase[i] = c
    THEN LowerCase[CHOOSE i \in DOMAIN UpperCase : UpperCase[i] = c]
    ELSE c

\* str.lower()
lower(s) == [i \in DOMAIN s |-> LowerOf(s[i])]

RECURSIVE lstrip(_)
lstrip(s) ==
    IF s # <<>> /\ Head(s) \in Whitespace THEN lstrip(Tail(s)) ELSE s

RECURSIVE rstrip(_)
rstrip(s) ==
    IF s # <<>> /\ s[Len(s)] \in Whitespace
    THEN rstrip(SubSeq(s, 1, Len(s) - 1))
    ELSE s

\* str.strip() without arguments
strip(s) == rstrip(lstrip(s))

\* str.startswith(p)
startswith(s, p) == Len(s) >= Len(p) /\ SubSeq(s, 1, Len(p)) = p

\* the `in` operator on strings: sub in s
Contains(s, sub) ==
    \E i \in 1..(Len(s) + 1) :
        i + Len(sub) - 1 <= Len(s) /\ SubSeq(s, i, i + Len(sub) - 1) = sub

\* sep.join(parts)
RECURSIVE join(_, _)
join(sep, parts) ==
    IF parts = <<>> THEN <<>>
    ELSE IF Len(parts) = 1 THEN parts[1]
    ELSE parts[1] \o sep \o join(sep, Tail(parts))

\* the positions of character c in s
Positions(s, c) == {i \in DOMAIN s : s[i] = c}

Max(S) == CHOOSE x \in S : \A y \in S : y <= x

Min(S) == CHOOSE x \in S : \A y \in S : x <= y

(***************************************************************************)
(* urllib.parse.urlparse(url).path and os.path.splitext(path)[1], for URLs *)
(* without ";" parameters.                                                 *)
(***************************************************************************)
SchemeChars == {LowerCase[i] : i \in DOMAIN LowerCase}
               \cup {UpperCase[i] : i \in DOMAIN UpperCase}
               \cup {"0", "1", "2", "3", "4", "5", "6", "7", "8", "9", "+", "-", "."}

\* the url without its "scheme:" prefix
AfterScheme(url) ==
    IF Positions(url, ":") = {} THEN url
    ELSE LET k == Min(Positions(url, ":"))
         IN  IF k > 1 /\ \A i \in 1..(k - 1) : url[i] \in SchemeChars
             THEN SubSeq(url, k + 1, Len(url))
             ELSE url

\* s up to, not including, the first character of Stop
UpTo(s, Stop) ==
    LET hits == {i \in DOMAIN s : s[i] \in Stop}
    IN  IF hits = {} THEN s ELSE SubSeq(s, 1, Min(hits) - 1)

\* the url without scheme and "//netloc"
AfterNetloc(url) ==
    LET rest == AfterScheme(url)
    IN  IF startswith(rest, <<"/", "/">>)
        THEN LET r2 == SubSeq(rest, 3, Len(rest))
                 host == UpTo(r2, {"/", "?", "#"})
             IN  SubSeq(r2, Len(host) + 1, Len(r2))
        ELSE rest

UrlPath(url) == UpTo(AfterNetloc(url), {"?", "#"})

splitext_ext(path) ==
    LET slash == Positions(path, "/")
        base  == IF slash = {} THEN 1 ELSE Max(slash) + 1
        dots  == {i \in Positions(path, ".") : i >= base}
    IN  IF dots = {} THEN <<>>
        ELSE LET d == Max(dots)
             IN  IF \E i \in base..(d - 1) : path[i] # "."
                 THEN SubSeq(path, d, Len(path))
                 ELSE <<>>

\* download_image: the extension of the file name
Ext(image_url) ==
    LET ext == splitext_ext(UrlPath(image_url))
    IN  IF ext = <<>> THEN <<".", "j", "p", "g">> ELSE ext

\* get_product_info: the URL handed to download_image
NormalizeUrl(img_url) ==
    IF ~startswith(img_url, <<"h", "t", "t", "p">>)
    THEN IF startswith(img_url, <<"/", "/">>)
         THEN <<"h", "t", "t", "p", "s", ":">> \o img_url
         ELSE <<"h", "t", "t", "p", "s", ":", "/", "/">> \o img_url
    ELSE img_url

images_dir == <<"product_images">>

base_url == <<"https://cjdropshipping.com/detail.html?sku=">>

\* os.path.join(a, b) for a relative b
path_join(a, b) == a \o <<"/">> \o b

\* download_image: the path the image is written to
LocalPath(image_url, sku, index) ==
    path_join(path_join(images_dir, sku),
              sku \o <<"_image_">> \o <<ToString(index)>> \o Ext(image_url))

(***************************************************************************)
(* The parsed document (BeautifulSoup).  A document is the sequence of its *)
(* elements in document order; depth is the nesting depth of an element,   *)
(* so the descendants of element i are the elements that follow it while   *)
(* their depth is greater.  has is the set of attributes the element       *)
(* carries; an attribute's value is read only when it is in has.           *)
(***************************************************************************)
Node(tag, has, klass, klass_, id, src, data_src, text, depth) ==
    [tag |-> tag, has |-> has, class |-> klass, class_ |-> klass_, id |-> id,
     src |-> src, data_src |-> data_src, text |-> text, depth |-> depth]

\* the value of a string-valued attribute the selectors look at
AttrValue(n, a) ==
    CASE a = "class"  -> n.class
      [] a = "class_" -> n.class_
      [] a = "id"     -> n.id

\* soup.find(tag, attrs) matches an element: attrs is passed as the second
\* positional argument, the dictionary of attribute filters, so its key is
\* the name of the attribute that is compared ("class_" is the attribute
\* named class_, not the keyword argument that means class)
Matches(n, sel) ==
    /\ n.tag = sel.tag
    /\ sel.attr \in n.has
    /\ AttrValue(n, sel.attr) = sel.value

\* soup.find(tag, attrs): the first matching element in document order,
\* 0 for None
find(soup, sel) ==
    LET hits == {i \in DOMAIN soup : Matches(soup[i], sel)}
    IN  IF hits = {} THEN 0 ELSE Min(hits)

\* the elements inside element i
Descendants(soup, i) ==
    {j \in DOMAIN soup :
        /\ j > i
        /\ \A k \in (i + 1)..j : soup[k].depth > soup[i].depth}

\* the elements of S in document order
RECURSIVE InOrder(_)
InOrder(S) ==
    IF S = {} THEN <<>> ELSE <<Min(S)>> \o InOrder(S \ {Min(S)})

Sel(tag, attr, value) == [tag |-> tag, attr |-> attr, value |-> value]

TitleSelectors ==
    << Sel("h1", "class_", "product-title"),
       Sel("h1", "class_", "title"),
       Sel("div", "class_", "product-name"),
       Sel("div", "class_", "detail-title") >>

DescriptionSelectors ==
    << Sel("div", "class_", "product-description"),
       Sel("div", "class_", "description"),
       Sel("div", "class_", "detail-desc"),
       Sel("div", "id", "description") >>

ImageContainers ==
    << Sel("div", "class_", "product-images"),
       Sel("div", "class_", "detail-gallery"),
       Sel("div", "class_", "product-gallery") >>

\* the loop of _get_title and _get_description: the stripped text of the
\* element found by the first selector that finds one, '' when none does
RECURSIVE FirstMatchText(_, _)
FirstMatchText(soup, selectors) ==
    IF selectors = <<>> THEN <<>>
    ELSE LET elem == find(soup, Head(selectors))
         IN  IF elem # 0 THEN strip(soup[elem].text)
             ELSE FirstMatchText(soup, Tail(selectors))

_get_title(soup) == FirstMatchText(soup, TitleSelectors)

_get_description(soup) == FirstMatchText(soup, DescriptionSelectors)

\* _get_images, inner loop: src if the img has it, else data-src if it has
\* that, else nothing
RECURSIVE ImgUrls(_, _)
ImgUrls(soup, imgs) ==
    IF imgs = <<>> THEN <<>>
    ELSE LET img == soup[Head(imgs)]
             this == IF "src" \in img.has THEN <<img.src>>
                     ELSE IF "data-src" \in img.has THEN <<img.data_src>>
                     ELSE <<>>
         IN  this \o ImgUrls(soup, Tail(imgs))

\* _get_images, outer loop over the container selectors
RECURSIVE ContainerImages(_, _)
ContainerImages(soup, containers) ==
    IF containers = <<>> THEN <<>>
    ELSE LET c == find(soup, Head(containers))
             here == IF c = 0 THEN <<>>
                     ELSE ImgUrls(soup, InOrder({j \in Descendants(soup, c) :
                                                    soup[j].tag = "img"}))
         IN  here \o ContainerImages(soup, Tail(containers))

_get_images(soup) == ContainerImages(soup, ImageContainers)

Markers ==
    { <<"p", "r", "o", "d", "u", "c", "t">>, <<"g", "o", "o", "d", "s">>,
      <<"i", "t", "e", "m">>, <<"d", "e", "t", "a", "i", "l">> }

\* img.get(attr, '')
GetSrc(img) == IF "src" \in img.has THEN img.src ELSE <<>>

GetDataSrc(img) == IF "data-src" \in img.has THEN img.data_src ELSE <<>>

\* _get_alternative_images: the list before list(set(images))
RECURSIVE AltList(_, _)
AltList(soup, imgs) ==
    IF imgs = <<>> THEN <<>>
    ELSE LET img == soup[Head(imgs)]
             src == GetSrc(img)
             data_src == GetDataSrc(img)
             a == IF \E x \in Markers : Contains(lower(src), x)
                  THEN <<src>> ELSE <<>>
             b == IF data_src # <<>> THEN <<data_src>> ELSE <<>>
         IN  a \o b \o AltList(soup, Tail(imgs))

Range(s) == {s[i] : i \in DOMAIN s}

\* list(set(images)): the elements of the set, once each, in an order the
\* code does not determine
ListOfSet(S) ==
    {p \in [1..Cardinality(S) -> S] : Range(p) = S}

\* _get_alternative_images(soup): the lists it can return
_get_alternative_images(soup) ==
    ListOfSet(Range(AltList(soup, InOrder({j \in DOMAIN soup :
                                              soup[j].tag = "img"}))))

(***************************************************************************)
(* The environment: what the operator types, what the server answers.      *)
(***************************************************************************)
NoText == <<>>

U_png == <<"/", "/", "c", ".", "x", "/", "a", ".", "p", "n", "g">>

U_bare == <<"b", ".", "j", "p", "g">>

U_item == <<"h", "t", "t", "p", ":", "/", "/", "c", ".", "x", "/", "I", "t", "e", "m">>

\* the lines typed at the prompt
Inputs ==
    { <<>>, <<" ">>,
      <<"q", "u", "i", "t">>, <<" ", "Q", "u", "i", "t">>,
      <<"a">>, <<" ", "b", " ">> }

\* a page with a gallery the container selectors find, and a title
DocGallery ==
    << Node("div", {"class_"}, "", "product-images", "", <<>>, <<>>, NoText, 0),
       Node("img", {"src"}, "", "", "", U_png, <<>>, NoText, 1),
       Node("img", {"data-src"}, "", "", "", <<>>, U_bare, NoText, 1),
       Node("h1", {"class_"}, "", "product-title", "", <<>>, <<>>,
            <<" ", "T", "e", "e", " ">>, 0) >>

\* a page that marks its elements with the class attribute
DocClass ==
    << Node("div", {"class"}, "product-images", "", "", <<>>, <<>>, NoText, 0),
       Node("img", {"src"}, "", "", "", U_item, <<>>, NoText, 1),
       Node("div", {"class"}, "product-description", "", "", <<>>, <<>>,
            <<"S", "o", "f", "t">>, 0) >>

\* a page without images
DocPlain ==
    << Node("div", {"id"}, "", "", "description", <<>>, <<>>,
            <<"t", "e", "e", "\n">>, 0) >>

\* the pages the server can answer with
MainDocs == {DocGallery, DocClass, DocPlain}

\* the bodies an image GET can deliver
Bytes == {"b1", "b2"}

\* what a product-page GET can end in
PageErrors == {"connection_error", "http_error"}

\* what a download_image call can end in: the GET fails (no connection, or
\* raise_for_status on a non-2xx status), the GET succeeds and the write
\* fails after open() has truncated the file, the GET and the write succeed
ImageOutcomes ==
    {[status |-> "get_fail", content |-> ""], [status |-> "write_fail", content |-> ""]}
    \cup {[status |-> "ok", content |-> b] : b \in Bytes}

(***************************************************************************)
(* The state.                                                              *)
(***************************************************************************)
VARIABLES
    pc,                 \* where main() / get_product_info() stands
    entered,            \* the lines read from the prompt so far
    sku,                \* main: sku
    soup,               \* get_product_info: the parsed page
    image_urls,         \* get_product_info: image_urls
    idx,                \* get_product_info: the next index of the download loop
    local_image_paths,  \* get_product_info: local_image_paths
    ret,                \* what the last download_image call returned
    product_data,       \* what get_product_info returned: <<>> is None
    files,              \* the image files on disk: path -> content
    dirs,               \* the directories created
    csv,                \* products.csv: whether it exists, and its rows
    log,                \* the GETs issued and the calls made, in order
    title,              \* selector specification: result of _get_title
    description,        \* selector specification: result of _get_description
    alt_urls,           \* selector specification: result of _get_alternative_images
    applied             \* selector specification: the functions applied

vars == <<pc, entered, sku, soup, image_urls, idx, local_image_paths, ret,
          product_data, files, dirs, csv, log, title, description, alt_urls,
          applied>>

Event(op, n, res, path) ==
    [op |-> op, round |-> Len(entered), n |-> n, res |-> res, path |-> path]

EmptyFiles == [p \in {} |-> ""]

Init ==
    /\ pc = "prompt"
    /\ entered = <<>>
    /\ sku = <<>>
    /\ soup = <<>>
    /\ image_urls = <<>>
    /\ idx = 0
    /\ local_image_paths = <<>>
    /\ ret = <<>>
    /\ product_data = <<>>
    /\ files = EmptyFiles
    /\ dirs = {images_dir}
    /\ csv = [exists |-> FALSE, lines |-> <<>>]
    /\ log = <<>>
    /\ title = <<>>
    /\ description = <<>>
    /\ alt_urls = <<>>
    /\ applied = {}

selectorVars == <<title, description, alt_urls, applied>>

(***************************************************************************)
(* main(): the prompt.                                                     *)
(***************************************************************************)
\* the comparison without .lower()
IsQuit_case_sensitive(s) == s = <<"q", "u", "i", "t">>

IsQuit(s) == lower(s) = <<"q", "u", "i", "t">>

\* sku = input(...).strip(); if sku.lower() == 'quit': break
ReadQuit ==
    /\ pc = "prompt"
    /\ Len(entered) < MaxInputs
    /\ \E inp \in Inputs :
          /\ IsQuit(strip(inp))
          /\ entered' = Append(entered, inp)
          /\ sku' = strip(inp)
    /\ pc' = "exited"
    /\ UNCHANGED <<soup, image_urls, idx, local_image_paths, ret, product_data,
                   files, dirs, csv, log, selectorVars>>

\* if not sku: print(...); continue
ReadEmpty ==
    /\ pc = "prompt"
    /\ Len(entered) < MaxInputs
    /\ \E inp \in Inputs :
          /\ ~IsQuit(strip(inp))
          /\ strip(inp) = <<>>
          /\ entered' = Append(entered, inp)
          /\ sku' = strip(inp)
    /\ pc' = "prompt"
    /\ UNCHANGED <<soup, image_urls, idx, local_image_paths, ret, product_data,
                   files, dirs, csv, log, selectorVars>>

\* product_data = scraper.get_product_info(sku): the call is entered
ReadSku ==
    /\ pc = "prompt"
    /\ Len(entered) < MaxInputs
    /\ \E inp \in Inputs :
          /\ ~IsQuit(strip(inp))
          /\ strip(inp) # <<>>
          /\ entered' = Append(entered, inp)
          /\ sku' = strip(inp)
    /\ pc' = "fetch"
    /\ UNCHANGED <<soup, image_urls, idx, local_image_paths, ret, product_data,
                   files, dirs, csv, log, selectorVars>>

(***************************************************************************)
(* get_product_info(sku).                                                  *)
(***************************************************************************)
\* the failure is not raised and the call goes on with the page it has
PageGetFails_goes_on ==
    /\ pc = "fetch"
    /\ \E e \in PageErrors : log' = Append(log, Event("page_get", 0, e, <<>>))
    /\ pc' = "get_images"
    /\ UNCHANGED <<entered, sku, soup, image_urls, idx, local_image_paths, ret,
                   product_data, files, dirs, csv, selectorVars>>

\* requests.get / raise_for_status raise RequestException: return None, and
\* main prints the failure and prompts again
PageGetFails ==
    /\ pc = "fetch"
    /\ \E e \in PageErrors : log' = Append(log, Event("page_get", 0, e, <<>>))
    /\ product_data' = <<>>
    /\ pc' = "prompt"
    /\ UNCHANGED <<entered, sku, soup, image_urls, idx, local_image_paths, ret,
                   files, dirs, csv, selectorVars>>

\* the page arrives and is parsed
PageGetOk ==
    /\ pc = "fetch"
    /\ \E d \in MainDocs : soup' = d
    /\ log' = Append(log, Event("page_get", 0, "ok", <<>>))
    /\ pc' = "get_images"
    /\ UNCHANGED <<entered, sku, image_urls, idx, local_image_paths, ret,
                   product_data, files, dirs, csv, selectorVars>>

\* the fallback is consulted whatever the primary strategy returned
GetImages_always_fallback ==
    /\ pc = "get_images"
    /\ image_urls' = _get_images(soup)
    /\ local_image_paths' = <<>>
    /\ idx' = 0
    /\ log' = Append(log, Event("get_images", Len(image_urls'), "ok", <<>>))
    /\ pc' = "alt_images"
    /\ UNCHANGED <<entered, sku, soup, ret, product_data, files, dirs, csv,
                   selectorVars>>

\* image_urls = self._get_images(soup); local_image_paths = []
GetImages ==
    /\ pc = "get_images"
    /\ image_urls' = _get_images(soup)
    /\ local_image_paths' = <<>>
    /\ idx' = 0
    /\ log' = Append(log, Event("get_images", Len(image_urls'), "ok", <<>>))
    /\ pc' = IF image_urls' = <<>> THEN "alt_images" ELSE "download"
    /\ UNCHANGED <<entered, sku, soup, ret, product_data, files, dirs, csv,
                   selectorVars>>

\* if not image_urls: image_urls = self._get_alternative_images(soup)
AltImages ==
    /\ pc = "alt_images"
    /\ \E l \in _get_alternative_images(soup) : image_urls' = l
    /\ log' = Append(log, Event("alt_images", Len(image_urls'), "ok", <<>>))
    /\ pc' = IF image_urls' = <<>> THEN "extract" ELSE "download"
    /\ UNCHANGED <<entered, sku, soup, idx, local_image_paths, ret,
                   product_data, files, dirs, csv, selectorVars>>

\* the file system after writing content to path
WriteFile(fs, path, content) ==
    [p \in DOMAIN fs \cup {path} |-> IF p = path THEN content ELSE fs[p]]

\* the except branch returns local_path instead of ''
download_image_path_on_failure(fs, image_url, the_sku, index, resp) ==
    LET local_path == LocalPath(image_url, the_sku, index)
    IN  CASE resp.status = "get_fail" ->
               [files |-> fs, ret |-> local_path]
          [] resp.status = "write_fail" ->
               [files |-> WriteFile(fs, local_path, ""), ret |-> local_path]
          [] resp.status = "ok" ->
               [files |-> WriteFile(fs, local_path, resp.content), ret |-> local_path]

\* open(local_path, 'wb') is entered before requests.get
download_image_open_before_get(fs, image_url, the_sku, index, resp) ==
    LET local_path == LocalPath(image_url, the_sku, index)
    IN  CASE resp.status = "get_fail" ->
               [files |-> WriteFile(fs, local_path, ""), ret |-> <<>>]
          [] resp.status = "write_fail" ->
               [files |-> WriteFile(fs, local_path, ""), ret |-> <<>>]
          [] resp.status = "ok" ->
               [files |-> WriteFile(fs, local_path, resp.content), ret |-> local_path]

\* download_image(image_url, sku, index) on the files fs, the GET and the
\* write ending as resp says: the files afterwards and the value returned
\* ('' is <<>>).  Every exception is caught; open(local_path, 'wb') comes
\* after raise_for_status and truncates the file before the write.
download_image(fs, image_url, the_sku, index, resp) ==
    LET local_path == LocalPath(image_url, the_sku, index)
    IN  CASE resp.status = "get_fail" ->
               [files |-> fs, ret |-> <<>>]
          [] resp.status = "write_fail" ->
               [files |-> WriteFile(fs, local_path, ""), ret |-> <<>>]
          [] resp.status = "ok" ->
               [files |-> WriteFile(fs, local_path, resp.content), ret |-> local_path]

\* the index the download loop goes on with
NextIndex(i) == i + 1

\* one iteration of: for idx, img_url in enumerate(image_urls)
DownloadImage ==
    /\ pc = "download"
    /\ idx < Len(image_urls)
    /\ LET img_url == NormalizeUrl(image_urls[idx + 1])
       IN  \E resp \in ImageOutcomes :
              LET r == download_image(files, img_url, sku, idx, resp)
              IN  /\ files' = r.files
                  /\ ret' = r.ret
                  /\ local_image_paths' =
                        IF r.ret # <<>> THEN Append(local_image_paths, r.ret)
                        ELSE local_image_paths
                  /\ log' = Append(log, Event("download_image", idx, resp.status,
                                              LocalPath(img_url, sku, idx)))
    /\ dirs' = dirs \cup {path_join(images_dir, sku)}
    /\ idx' = NextIndex(idx)
    /\ pc' = IF idx' < Len(image_urls) THEN "download" ELSE "extract"
    /\ UNCHANGED <<entered, sku, soup, image_urls, product_data, csv,
                   selectorVars>>

\* the dictionary get_product_info returns
ProductData(s, t, d, urls, paths) ==
    [sku |-> s, title |-> t, description |-> d,
     image_urls |-> join(<<"|">>, urls),
     local_image_paths |-> join(<<"|">>, paths),
     url |-> base_url \o s]

\* title = self._get_title(soup); description = self._get_description(soup);
\* return product_data
ExtractFields ==
    /\ pc = "extract"
    /\ product_data' = <<ProductData(sku, _get_title(soup), _get_description(soup),
                                     image_urls, local_image_paths)>>
    /\ log' = log \o <<Event("get_title", 0, "ok", <<>>),
                       Event("get_description", 0, "ok", <<>>)>>
    /\ pc' = "save"
    /\ UNCHANGED <<entered, sku, soup, image_urls, idx, local_image_paths, ret,
                   files, dirs, csv, selectorVars>>

(***************************************************************************)
(* save_to_csv(product_data).                                              *)
(***************************************************************************)
\* the header row: the keys of the dictionary
HeaderRow ==
    [sku |-> <<"sku">>, title |-> <<"title">>, description |-> <<"description">>,
     image_urls |-> <<"image_urls">>, local_image_paths |-> <<"local_image_paths">>,
     url |-> <<"url">>]

\* header=True on every call
to_csv_header_always(file, row) ==
    [exists |-> TRUE, lines |-> file.lines \o <<HeaderRow, row>>]

\* the new row is put before the rows already there
to_csv_prepend(file, row) ==
    [exists |-> TRUE, lines |-> <<HeaderRow, row>> \o
                                (IF file.exists THEN Tail(file.lines) ELSE <<>>)]

\* mode='w' on every call
to_csv_overwrite(file, row) ==
    [exists |-> TRUE, lines |-> <<HeaderRow, row>>]

\* df.to_csv(filename, mode='a' if file_exists else 'w',
\*           header=not file_exists, index=False)
to_csv(file, row) ==
    LET file_exists == file.exists
    IN  [exists |-> TRUE,
         lines  |-> IF file_exists THEN Append(file.lines, row)
                    ELSE <<HeaderRow, row>>]

\* save_to_csv: nothing for None
save_to_csv(file, data) ==
    IF data = <<>> THEN file ELSE to_csv(file, data[1])

\* main: if product_data: scraper.save_to_csv(product_data)
SaveToCsv ==
    /\ pc = "save"
    /\ csv' = save_to_csv(csv, product_data)
    /\ log' = Append(log, Event("save_to_csv", 0, "ok", <<>>))
    /\ pc' = "prompt"
    /\ UNCHANGED <<entered, sku, soup, image_urls, idx, local_image_paths, ret,
                   product_data, files, dirs, selectorVars>>

Next ==
    \/ ReadQuit
    \/ ReadEmpty
    \/ ReadSku
    \/ PageGetFails
    \/ PageGetOk
    \/ GetImages
    \/ AltImages
    \/ DownloadImage
    \/ ExtractFields
    \/ SaveToCsv

Spec == Init /\ [][Next]_vars

(***************************************************************************)
(* The selector specification: the four extraction functions applied to    *)
(* every document of up to MaxNodes elements built from ElementKinds.      *)
(***************************************************************************)
ElementKinds ==
    { Node("div", {"class_"}, "", "product-images", "", <<>>, <<>>, NoText, 0),
      Node("div", {"class_"}, "", "detail-gallery", "", <<>>, <<>>, NoText, 0),
      Node("div", {"class"}, "product-images", "", "", <<>>, <<>>, NoText, 0),
      Node("div", {"class"}, "product-description", "", "", <<>>, <<>>,
           <<"S", "o", "f", "t", " ">>, 0),
      Node("div", {"id"}, "", "", "description", <<>>, <<>>, <<" ", "b">>, 0),
      Node("h1", {"class_"}, "", "title", "", <<>>, <<>>,
           <<" ", "T", "e", "e", " ">>, 0),
      Node("img", {"src"}, "", "", "", U_png, <<>>, NoText, 0),
      Node("img", {"data-src"}, "", "", "", <<>>, U_bare, NoText, 0),
      Node("img", {"src", "data-src"}, "", "", "", U_item, U_bare, NoText, 0) }

Elements == {[k EXCEPT !.depth = d] : k \in ElementKinds, d \in 0..(MaxNodes - 1)}

\* the depths are those of a tree in document order, and only a div has
\* elements inside it
WellFormed(doc) ==
    /\ doc # <<>> => doc[1].depth = 0
    /\ \A i \in 2..Len(doc) :
          /\ doc[i].depth <= doc[i - 1].depth + 1
          /\ doc[i].depth = doc[i - 1].depth + 1 => doc[i - 1].tag = "div"

Docs ==
    UNION {{doc \in [1..n -> Elements] : WellFormed(doc)} : n \in 0..MaxNodes}

InitExtract ==
    /\ pc = "parsed"
    /\ soup \in Docs
    /\ entered = <<>>
    /\ sku = <<>>
    /\ image_urls = <<>>
    /\ idx = 0
    /\ local_image_paths = <<>>
    /\ ret = <<>>
    /\ product_data = <<>>
    /\ files = EmptyFiles
    /\ dirs = {images_dir}
    /\ csv = [exists |-> FALSE, lines |-> <<>>]
    /\ log = <<>>
    /\ title = <<>>
    /\ description = <<>>
    /\ alt_urls = <<>>
    /\ applied = {}

mainVars == <<pc, entered, sku, soup, idx, local_image_paths, ret, product_data,
              files, dirs, csv, log>>

ApplyGetTitle ==
    /\ pc = "parsed"
    /\ "title" \notin applied
    /\ title' = _get_title(soup)
    /\ applied' = applied \cup {"title"}
    /\ UNCHANGED <<mainVars, image_urls, description, alt_urls>>

ApplyGetDescription ==
    /\ pc = "parsed"
    /\ "description" \notin applied
    /\ description' = _get_description(soup)
    /\ applied' = applied \cup {"description"}
    /\ UNCHANGED <<mainVars, image_urls, title, alt_urls>>

ApplyGetImages ==
    /\ pc = "parsed"
    /\ "images" \notin applied
    /\ image_urls' = _get_images(soup)
    /\ applied' = applied \cup {"images"}
    /\ UNCHANGED <<mainVars, title, description, alt_urls>>

ApplyGetAlternativeImages ==
    /\ pc = "parsed"
    /\ "alt_images" \notin applied
    /\ \E l \in _get_alternative_images(soup) : alt_urls' = l
    /\ applied' = applied \cup {"alt_images"}
    /\ UNCHANGED <<mainVars, image_urls, title, description>>

NextExtract ==
    \/ ApplyGetTitle
    \/ ApplyGetDescription
    \/ ApplyGetImages
    \/ ApplyGetAlternativeImages

SpecExtract == InitExtract /\ [][NextExtract]_vars

(***************************************************************************)
(* Reading the log.                                                        *)
(***************************************************************************)
Last(s) == s[Len(s)]

IsPrefix(s, t) == Len(s) <= Len(t) /\ SubSeq(t, 1, Len(s)) = s

\* the events of round r (the r-th line read from the prompt), in order
EventsOf(r) ==
    LET InRound(e) == e.round = r
    IN  SelectSeq(log, InRound)

\* the events of s with operation op
Only(s, op) ==
    LET IsOp(e) == e.op = op
    IN  SelectSeq(s, IsOp)

\* the positions in s of the events with operation op
At(s, op) == {i \in DOMAIN s : s[i].op = op}

\* the paths of the downloads that succeeded, in order
RECURSIVE OkPaths(_)
OkPaths(s) ==
    IF s = <<>> THEN <<>>
    ELSE (IF Head(s).res = "ok" THEN <<Head(s).path>> ELSE <<>>) \o OkPaths(Tail(s))

\* the sku main() derives from the r-th line
SkuOf(r) == strip(entered[r])

\* the rows of the CSV file after the header
DataRows == IF csv.exists THEN Tail(csv.lines) ELSE <<>>

\* main() is done with the r-th line: a later line was read, or the loop is
\* back at the prompt or left
Finished(r) == r < Len(entered) \/ pc \in {"prompt", "exited"}

(***************************************************************************)
(* C1: starting without the CSV file, after n >= 1 save_to_csv calls the   *)
(* file is one header row followed by the n records in call order; the     *)
(* header is written only by the call that found the file absent, and a    *)
(* record whose SKU is already in the file is appended all the same.       *)
(***************************************************************************)
C1_OneHeaderThenRowsInCallOrder ==
    LET saves == Only(log, "save_to_csv")
    IN  /\ csv.exists <=> saves # <<>>
        /\ csv.exists =>
              /\ csv.lines[1] = HeaderRow
              /\ Len(csv.lines) = 1 + Len(saves)
              /\ \A k \in 1..Len(saves) :
                    /\ csv.lines[k + 1] # HeaderRow
                    /\ csv.lines[k + 1].sku = SkuOf(saves[k].round)
                    /\ csv.lines[k + 1].url = base_url \o SkuOf(saves[k].round)
        /\ (pc # "save" /\ product_data # <<>>) =>
              (csv.exists /\ Last(csv.lines) = product_data[1])

\* two calls were made, the second with a SKU that was already in the file
C1_Witness ==
    /\ Len(csv.lines) = 3
    /\ csv.lines[2].sku = csv.lines[3].sku
    /\ csv.lines[2] # csv.lines[3]

(***************************************************************************)
(* C2: when the product-page GET fails, get_product_info returns None, no  *)
(* image is downloaded or written and no CSV row is appended for that      *)
(* line, and main() is back at the prompt.                                 *)
(***************************************************************************)
C2_PageFailureLeavesNoTrace ==
    /\ \A i \in DOMAIN log :
          (log[i].op = "page_get" /\ log[i].res \in PageErrors) =>
             /\ \A j \in DOMAIN log : j # i => log[j].round # log[i].round
             /\ (i = Len(log) /\ log[i].round = Len(entered)) =>
                   (pc = "prompt" /\ product_data = <<>>)
    /\ Len(DataRows) = Len(Only(log, "save_to_csv"))
    /\ \A p \in DOMAIN files :
          \E i \in DOMAIN log :
             /\ log[i].op = "download_image"
             /\ log[i].path = p
             /\ \E j \in DOMAIN log :
                   log[j].op = "page_get" /\ log[j].res = "ok"
                   /\ log[j].round = log[i].round

\* a page GET has just failed, after an earlier line left files and a row
C2_Witness ==
    /\ log # <<>>
    /\ Last(log).op = "page_get"
    /\ Last(log).res = "http_error"
    /\ pc = "prompt"
    /\ DOMAIN files # {}
    /\ Len(csv.lines) = 2

(***************************************************************************)
(* C3: whatever downloads fail, get_product_info calls download_image for  *)
(* each discovered URL exactly once, in list order, still returns a        *)
(* record, and local_image_paths is the paths of the downloads that        *)
(* succeeded, in list order.                                               *)
(***************************************************************************)
C3_EveryImageOnceFailuresDropped ==
    pc \in {"download", "extract", "save"} =>
       LET d  == Only(EventsOf(Len(entered)), "download_image")
           ok == OkPaths(d)
       IN  /\ Len(d) = idx
           /\ Len(d) <= Len(image_urls)
           /\ \A k \in 1..Len(d) :
                 /\ d[k].n = k - 1
                 /\ d[k].path = LocalPath(NormalizeUrl(image_urls[k]), sku, k - 1)
           /\ local_image_paths = ok
           /\ pc \in {"extract", "save"} => Len(d) = Len(image_urls)
           /\ pc = "save" =>
                 /\ product_data # <<>>
                 /\ product_data[1].local_image_paths = join(<<"|">>, ok)
                 /\ product_data[1].image_urls = join(<<"|">>, image_urls)
                 /\ Len(ok) <= Len(image_urls)

\* a record was returned although the first download failed, and the
\* second download was still made and succeeded
C3_Witness ==
    /\ pc = "save"
    /\ product_data # <<>>
    /\ LET d == Only(EventsOf(Len(entered)), "download_image")
       IN  /\ Len(d) = 2
           /\ d[1].res = "get_fail"
           /\ d[2].res = "ok"
           /\ local_image_paths = <<d[2].path>>

(***************************************************************************)
(* C4: download_image does not raise; when its GET fails it returns '' and *)
(* the file system is as before (no file appears at the target path, an    *)
(* existing one is untouched); a file appears only when the GET succeeded. *)
(***************************************************************************)
C4_FailedGetTouchesNoFile ==
    [][ pc = "download" =>
          LET e == Last(log')
          IN  /\ e.op = "download_image"
              /\ pc' \in {"download", "extract"}
              /\ e.res = "get_fail" => (ret' = <<>> /\ files' = files)
              /\ \A p \in DOMAIN files' \ DOMAIN files :
                    p = e.path /\ e.res # "get_fail"
              /\ ret' # <<>> => (e.res = "ok" /\ ret' = e.path /\ ret' \in DOMAIN files')
      ]_vars

\* a GET has just failed for a path at which an earlier download left a file
C4_Witness ==
    /\ log # <<>>
    /\ Last(log).op = "download_image"
    /\ Last(log).res = "get_fail"
    /\ Last(log).path \in DOMAIN files
    /\ files[Last(log).path] \in Bytes
    /\ ret = <<>>

(***************************************************************************)
(* C7: in one get_product_info call _get_alternative_images runs once when *)
(* _get_images returned nothing (as it does when no container selector     *)
(* finds an element) and not at all otherwise; it runs right after         *)
(* _get_images and before every download, and title and description are    *)
(* extracted after all downloads.                                          *)
(***************************************************************************)
C7_FallbackOnceAndOrder ==
    \A r \in 1..Len(entered) :
       LET ev  == EventsOf(r)
           gi  == At(ev, "get_images")
           alt == At(ev, "alt_images")
           dl  == At(ev, "download_image")
           gt  == At(ev, "get_title")
           gd  == At(ev, "get_description")
           current == r = Len(entered)
       IN  /\ Cardinality(gi) <= 1 /\ Cardinality(alt) <= 1
           /\ Cardinality(gt) <= 1 /\ Cardinality(gd) <= 1
           /\ alt # {} => \E g \in gi : ev[g].n = 0 /\ alt = {g + 1}
           /\ \A g \in gi :
                 /\ ev[g].n > 0 => alt = {}
                 /\ (ev[g].n = 0 /\ (~current \/ pc # "alt_images")) =>
                       Cardinality(alt) = 1
                 /\ (current /\ pc \notin {"prompt", "exited"}
                     /\ \A c \in DOMAIN ImageContainers :
                           find(soup, ImageContainers[c]) = 0) => ev[g].n = 0
           /\ \A x \in dl : (\A g \in gi : g < x) /\ (\A a \in alt : a < x)
           /\ dl # {} => gi # {}
           /\ \A t \in gt :
                 /\ \A x \in dl : x < t
                 /\ \A g \in gd : t < g
                 /\ \E g \in gi :
                       Cardinality(dl) =
                          IF alt = {} THEN ev[g].n ELSE ev[g + 1].n
           /\ gd # {} => gt # {}

\* the primary strategy found nothing, the fallback ran and found an image,
\* it was downloaded, and then title and description were extracted
C7_Witness ==
    LET ev == EventsOf(Len(entered))
    IN  /\ pc = "save"
        /\ Len(ev) = 6
        /\ ev[2].op = "get_images" /\ ev[2].n = 0
        /\ ev[3].op = "alt_images" /\ ev[3].n = 1
        /\ ev[4].op = "download_image"
        /\ ev[5].op = "get_title"

(***************************************************************************)
(* C8: everything done for the k-th line (its downloads, its CSV append)   *)
(* is done before the page GET of a later line; the CSV data rows are in   *)
(* the order in which the fetched SKUs were entered; within one SKU the    *)
(* images are downloaded in increasing index order.                        *)
(***************************************************************************)
C8_SequentialInEntryOrder ==
    LET saves == Only(log, "save_to_csv")
    IN  /\ \A i, j \in DOMAIN log : i < j => log[i].round <= log[j].round
        /\ \A r \in 1..Len(entered) :
              LET ev == EventsOf(r)
                  d  == Only(ev, "download_image")
              IN  /\ \A k \in 1..Len(d) : d[k].n = k - 1
                  /\ ev # <<>> => ev[1].op = "page_get"
                  /\ \A i \in DOMAIN ev :
                        /\ ev[i].op = "page_get" => i = 1
                        /\ ev[i].op = "save_to_csv" => i = Len(ev)
                  /\ (Finished(r) /\ ev # <<>> /\ ev[1].res = "ok") =>
                        Last(ev).op = "save_to_csv"
        /\ pc = "fetch" => \A i \in DOMAIN log : log[i].round < Len(entered)
        /\ \A k \in 1..(Len(saves) - 1) : saves[k].round < saves[k + 1].round
        /\ Len(DataRows) = Len(saves)
        /\ \A k \in 1..Len(saves) : DataRows[k].sku = SkuOf(saves[k].round)

\* two different SKUs were fetched, the first with two downloads, and
\* their rows are in the file
C8_Witness ==
    /\ Len(DataRows) = 2
    /\ DataRows[1].sku = <<"b">>
    /\ DataRows[2].sku = <<"a">>
    /\ Len(Only(EventsOf(1), "download_image")) = 2
    /\ pc = "prompt"

(***************************************************************************)
(* C9: a line that is empty after trimming causes no GET, no file and no   *)
(* row and the loop prompts again; a line that is quit in any letter case  *)
(* ends the loop without a GET; every other line causes exactly one        *)
(* product-page GET.                                                       *)
(***************************************************************************)
\* C9 as made: quit is recognised on the line as typed, every other
\* non-empty line causes exactly one product-page GET
C9_QuitAsTyped ==
    \A r \in 1..Len(entered) :
       (r < Len(entered) \/ pc # "fetch") =>
          LET gets == Len(Only(EventsOf(r), "page_get"))
          IN  IF strip(entered[r]) = <<>>
              THEN /\ EventsOf(r) = <<>>
                   /\ r = Len(entered) => pc = "prompt"
              ELSE IF lower(entered[r]) = <<"q", "u", "i", "t">>
              THEN /\ EventsOf(r) = <<>>
                   /\ r = Len(entered) /\ pc = "exited"
              ELSE gets = 1

\* C9 as amended: quit is recognised on the line after trimming, every
\* other non-empty line causes exactly one product-page GET
C9_QuitAfterTrimming ==
    \A r \in 1..Len(entered) :
       (r < Len(entered) \/ pc # "fetch") =>
          LET gets == Len(Only(EventsOf(r), "page_get"))
          IN  IF strip(entered[r]) = <<>>
              THEN /\ EventsOf(r) = <<>>
                   /\ r = Len(entered) => pc = "prompt"
              ELSE IF lower(strip(entered[r])) = <<"q", "u", "i", "t">>
              THEN /\ EventsOf(r) = <<>>
                   /\ r = Len(entered) /\ pc = "exited"
              ELSE gets = 1 /\ ~(r = Len(entered) /\ pc = "exited")

\* a SKU was fetched, then " Quit" was typed and ended the loop
C9_Witness ==
    /\ Len(entered) = 2
    /\ entered[1] = <<" ", "b", " ">>
    /\ entered[2] = <<" ", "Q", "u", "i", "t">>
    /\ pc = "exited"
    /\ Len(Only(log, "page_get")) = 1

(***************************************************************************)
(* C10: the files on disk are append-only / create-only.                   *)
(***************************************************************************)
CsvKept == csv.exists => (csv'.exists /\ IsPrefix(csv.lines, csv'.lines))

\* C10 as made: no step removes or changes a CSV row or an image file
C10_CreateOnly ==
    [][ /\ CsvKept
        /\ \A p \in DOMAIN files : p \in DOMAIN files' /\ files'[p] = files[p]
      ]_vars

\* C10 as amended: CSV rows are kept and no image file is removed; an
\* image file is rewritten only by a download_image call for the same path
\* whose GET succeeded
C10_RowsKeptImagesRewritten ==
    [][ /\ CsvKept
        /\ \A p \in DOMAIN files :
              /\ p \in DOMAIN files'
              /\ files'[p] # files[p] =>
                    /\ pc = "download"
                    /\ Last(log').op = "download_image"
                    /\ Last(log').path = p
                    /\ Last(log').res \in {"ok", "write_fail"}
      ]_vars

\* the same SKU was entered twice and the second download replaced the
\* bytes the first had written
C10_Witness ==
    \E i, j \in DOMAIN log :
       /\ i < j
       /\ log[i].op = "download_image" /\ log[j].op = "download_image"
       /\ log[i].path = log[j].path
       /\ log[i].res = "ok" /\ log[j].res = "ok"
       /\ j = Len(log)
       /\ files[log[j].path] = "b2"
       /\ Len(csv.lines) = 2

(***************************************************************************)
(* The selector rules as the specification reads them: a rule written      *)
(* with class_ selects the elements whose class attribute has the value.   *)
(***************************************************************************)
MatchesByClass(n, sel) ==
    /\ n.tag = sel.tag
    /\ IF sel.attr = "class_"
       THEN "class" \in n.has /\ n.class = sel.value
       ELSE sel.attr \in n.has /\ AttrValue(n, sel.attr) = sel.value

\* the stripped text of the first element matched by the first rule, in
\* priority order, that matches an element; '' when no rule matches
RECURSIVE FirstRuleText(_, _)
FirstRuleText(doc, selectors) ==
    IF selectors = <<>> THEN <<>>
    ELSE LET hits == {i \in DOMAIN doc : MatchesByClass(doc[i], Head(selectors))}
         IN  IF hits # {} THEN strip(doc[Min(hits)].text)
             ELSE FirstRuleText(doc, Tail(selectors))

\* the elements of doc that are containers by the three container rules
ContainersByClass(doc) ==
    {i \in DOMAIN doc :
        \E c \in DOMAIN ImageContainers : MatchesByClass(doc[i], ImageContainers[c])}

(***************************************************************************)
(* C5: title and description are the trimmed text of the element matched   *)
(* by the first rule, in priority order, that matches an element of the    *)
(* page, and '' when no rule matches; so a page whose only rule-matching   *)
(* element is <div class="product-description">T</div> gives description   *)
(* T trimmed and title ''.  Stated for the pages of plain HTML, in which no *)
(* element carries an attribute named class_.                              *)
(***************************************************************************)
C5_FirstRuleTrimmedText ==
    (\A i \in DOMAIN soup : "class_" \notin soup[i].has) =>
       /\ "title" \in applied => title = FirstRuleText(soup, TitleSelectors)
       /\ "description" \in applied =>
             description = FirstRuleText(soup, DescriptionSelectors)

(***************************************************************************)
(* C6: for a page with a container matching a container rule (a div with   *)
(* class product-images, detail-gallery or product-gallery), _get_images   *)
(* returns the URLs of the img elements inside that container, src         *)
(* preferred and data-src otherwise, in document order, and nothing else.  *)
(***************************************************************************)
C6_ImagesOfTheContainer ==
    ("images" \in applied /\ Cardinality(ContainersByClass(soup)) = 1) =>
       LET c == CHOOSE i \in ContainersByClass(soup) : TRUE
       IN  image_urls =
              ImgUrls(soup, InOrder({j \in Descendants(soup, c) :
                                        soup[j].tag = "img"}))

====
